---- MODULE Spec2Model ----
(***************************************************************************)
(* Model of the Reflex documentation store (src/src/reflex_docs_mcp/        *)
(* database.py) and of the HTTP handlers that call it (src/api.py).         *)
(*                                                                          *)
(* Text values are sequences of one-character strings, so that the string   *)
(* operations of the code (startswith, replace, split, join) are computed   *)
(* and not assumed.  NULL is the SQL NULL / Python None.                    *)
(***************************************************************************)
EXTENDS Integers, Sequences, FiniteSets, TLC

VARIABLES
    disk,         \* the committed content of the SQLite file
    txn,          \* the content as seen by the writer's open connection
    conn,         \* the writer's connection: "closed" or "open"
    pc,           \* the position of the writer inside its current operation
    args,         \* the call the writer is executing (or Nothing)
    ret,          \* what the step just taken returned to its caller (or Nothing)
    last_commit,  \* the operation whose conn.commit() was the latest to succeed
    req           \* the request the server is handling (op, argument, position,
                  \* counts read so far) and the server's connection

vars == <<disk, txn, conn, pc, args, ret, last_commit, req>>

NULL == <<"NULL">>
Nothing == [op |-> "none"]

\* ------------------------------------------------------------------ bounds

MaxSectionId == 2
MaxSearchSectionId == 3
MaxComponentId == 2
MaxCatalogId == 3
MaxNameLen == 4
MaxScore == 2
MaxLimit == 3
MaxRequestSectionId == 2
MaxSnippetSectionId == 1
SnippetSlack == 2
MaxRequestComponentId == 1

\* Query(10, ge=1, le=50): the limits the search endpoint accepts.
LimitMin == 1
LimitMax == 50

\* ----------------------------------------------------------- sequence helpers

Range(s) == {s[i] : i \in 1..Len(s)}

Take(s, n) == IF n >= Len(s) THEN s ELSE SubSeq(s, 1, n)

Drop(s, n) == IF n >= Len(s) THEN <<>> ELSE SubSeq(s, n + 1, Len(s))

\* str.startswith(prefix)
StartsWith(s, prefix) ==
    /\ Len(s) >= Len(prefix)
    /\ SubSeq(s, 1, Len(prefix)) = prefix

\* str.replace(old, new): every non-overlapping occurrence, scanning from the left.
RECURSIVE Replace(_, _, _)
Replace(s, old, new) ==
    IF s = <<>> THEN <<>>
    ELSE IF StartsWith(s, old) THEN new \o Replace(Drop(s, Len(old)), old, new)
    ELSE <<Head(s)>> \o Replace(Tail(s), old, new)

RX == <<"r", "x", ".">>

\* ------------------------------------------------------------------- schema

\* CREATE TABLE docs_sections / docs_sections_fts / components, all empty, and
\* the AUTOINCREMENT counters of sqlite_sequence.
EmptyDb ==
    [docs_sections |-> {}, docs_sections_fts |-> {}, components |-> {},
     seq_sections |-> 0, seq_components |-> 0]

\* AUTOINCREMENT: one more than the largest rowid the table ever held.
NextId(rows, seq) ==
    LET used == {r.id : r \in rows} \cup {seq}
    IN  (CHOOSE m \in used : \A u \in used : u <= m) + 1

\* The fts5 row of a section: the indexed columns, keyed by content_rowid='id'.
FtsEntry(row) ==
    [rowid |-> row.id, slug |-> row.slug, title |-> row.title,
     heading |-> row.heading, content |-> row.content]

\* Faulty variant: the trigger rebuilds the index from the new row alone.
TriggerAfterInsertReplacesIndex(db, new) ==
    [db EXCEPT !.docs_sections_fts = {FtsEntry(new)}]


\* Trigger docs_sections_ai: AFTER INSERT, index the new row.
TriggerAfterInsert(db, new) ==
    [db EXCEPT !.docs_sections_fts = @ \cup {FtsEntry(new)}]

\* Faulty variant: the delete trigger is missing.
TriggerAfterDeleteMissing(db, old) == db

\* Trigger docs_sections_ad: AFTER DELETE, the fts5 'delete' command with the
\* old row's values removes that entry from the index.
TriggerAfterDelete(db, old) ==
    [db EXCEPT !.docs_sections_fts = @ \ {FtsEntry(old)}]

\* INSERT INTO docs_sections (...) VALUES (?, ?, ?, ?, ?, ?, ?)
SqlInsertSection(db, a) ==
    LET id  == NextId(db.docs_sections, db.seq_sections)
        new == [id |-> id, slug |-> a.slug, title |-> a.title,
                heading |-> a.heading, level |-> a.level, content |-> a.content,
                position |-> a.position, url |-> a.url]
    IN  TriggerAfterInsert(
            [db EXCEPT !.docs_sections = @ \cup {new}, !.seq_sections = id], new)

\* DELETE FROM docs_sections: row by row, each firing the delete trigger.
RECURSIVE SqlDeleteSections(_)
SqlDeleteSections(db) ==
    IF db.docs_sections = {} THEN db
    ELSE LET old == CHOOSE r \in db.docs_sections : TRUE
         IN  SqlDeleteSections(
                 TriggerAfterDelete([db EXCEPT !.docs_sections = @ \ {old}], old))

\* Faulty variant: clear_db leaves the components table alone.
SqlDeleteComponentsMissing(db) == db

\* DELETE FROM components
SqlDeleteComponents(db) == [db EXCEPT !.components = {}]

\* Faulty variant: a plain INSERT that keeps the row of the same name.
SqlInsertComponentKeepsOld(db, a) ==
    LET id  == NextId(db.components, db.seq_components)
        new == [id |-> id, name |-> a.name, category |-> a.category,
                description |-> a.description, doc_slug |-> a.doc_slug,
                url |-> a.url]
    IN  [db EXCEPT !.components = @ \cup {new}, !.seq_components = id]

\* INSERT OR REPLACE INTO components: the row that conflicts on UNIQUE(name)
\* is deleted, then the new row is inserted under a fresh AUTOINCREMENT id.
SqlInsertOrReplaceComponent(db, a) ==
    LET id   == NextId(db.components, db.seq_components)
        new  == [id |-> id, name |-> a.name, category |-> a.category,
                 description |-> a.description, doc_slug |-> a.doc_slug,
                 url |-> a.url]
        kept == {c \in db.components : c.name # a.name}
    IN  [db EXCEPT !.components = kept \cup {new}, !.seq_components = id]

\* conn.commit(): the transaction's content becomes the file's content.
SqlCommit(committed, working) == working

\* Faulty variant: closing the connection keeps what the transaction wrote (autocommit).
SqlRollbackKeepsWrites(committed, working) == working

\* conn.close() with an open transaction: the transaction is rolled back.
SqlRollback(committed, working) == committed

\* ------------------------------------------------------------------- inputs

Slugs == {<<"p">>, <<"q">>}
Positions == {0, 1}

\* insert_section(slug, title, heading, level, content, position, url)
SectionInputs ==
    {[slug |-> s, title |-> v[1], heading |-> v[2], level |-> v[3],
      content |-> v[4], position |-> p, url |-> v[5]] :
        s \in Slugs, p \in Positions,
        v \in {<<<<"t">>, <<"h">>, 1, <<"a">>, <<"u">>>>,
               <<<<"s">>, <<"g">>, 2, <<"a", " ", "b">>, <<"w">>>>}}

SearchSectionInputs == {a \in SectionInputs : a.position = 0 /\ a.slug = <<"p">>}

ComponentDetails ==
    {<<<<"l">>, <<"d">>, <<"p">>, <<"u">>>>, <<NULL, <<"e">>, NULL, NULL>>}

\* insert_component(name, category, description, doc_slug, url)
ComponentInputsOf(names) ==
    {[name |-> n, category |-> v[1], description |-> v[2], doc_slug |-> v[3],
      url |-> v[4]] : n \in names, v \in ComponentDetails}

StoreComponentNames == {RX \o <<"a">>}
CatalogNames == {RX \o <<"a">>, <<"a">>, RX \o RX \o <<"a">>}

\* ------------------------------------------------------------ connections

\* Faulty variant: conn.close() follows the yield without try/finally, so an
\* exception inside the with block leaves the connection open.
GetConnectionExitNoFinally(exit) == IF exit = "raised" THEN "open" ELSE "closed"

\* get_connection: `finally: conn.close()` runs however the with block is
\* left: normally, by a return inside it, or by an exception.
GetConnectionExit(exit) == "closed"

\* The server between two requests.
NoRequest == [op |-> "none", conn |-> "closed"]

\* ------------------------------------------------------------ initial state

Init ==
    /\ disk = EmptyDb
    /\ txn = EmptyDb
    /\ conn = "closed"
    /\ pc = "idle"
    /\ args = Nothing
    /\ ret = Nothing
    /\ last_commit = "init_db"
    /\ req = NoRequest

\* ------------------------------------------------------- the writer (ingester)

\* What a write returns to its caller: None on success, an exception otherwise.
Returned(call) == [op |-> call.op, args |-> call, status |-> "ok"]
Raised(call, at) == [op |-> call.op, args |-> call, status |-> "raised", at |-> at]
Crashed(call, at) == [op |-> call.op, args |-> call, status |-> "crashed", at |-> at]

\* insert_section, up to cursor.execute: connect, then the INSERT statement.
InsertSectionExecute(inputs, maxId) ==
    \E a \in inputs :
        /\ pc = "idle"
        /\ disk.seq_sections < maxId
        /\ conn' = "open"
        /\ args' = [op |-> "insert_section", a |-> a]
        /\ txn' = SqlInsertSection(disk, a)
        /\ pc' = "insert_section:commit"
        /\ ret' = Nothing
        /\ UNCHANGED <<disk, last_commit, req>>

\* insert_section: conn.commit(), then the with block closes the connection.
InsertSectionCommit ==
    /\ pc = "insert_section:commit"
    /\ disk' = SqlCommit(disk, txn)
    /\ txn' = disk'
    /\ conn' = GetConnectionExit("returned")
    /\ pc' = "idle"
    /\ ret' = Returned(args)
    /\ args' = Nothing
    /\ last_commit' = "insert_section"
    /\ UNCHANGED req

\* insert_component, up to cursor.execute: connect, then INSERT OR REPLACE.
InsertComponentExecute(inputs, maxId) ==
    \E a \in inputs :
        /\ pc = "idle"
        /\ disk.seq_components < maxId
        /\ conn' = "open"
        /\ args' = [op |-> "insert_component", a |-> a]
        /\ txn' = SqlInsertOrReplaceComponent(disk, a)
        /\ pc' = "insert_component:commit"
        /\ ret' = Nothing
        /\ UNCHANGED <<disk, last_commit, req>>

\* insert_component: conn.commit(), then the connection is closed.
InsertComponentCommit ==
    /\ pc = "insert_component:commit"
    /\ disk' = SqlCommit(disk, txn)
    /\ txn' = disk'
    /\ conn' = GetConnectionExit("returned")
    /\ pc' = "idle"
    /\ ret' = Returned(args)
    /\ args' = Nothing
    /\ last_commit' = "insert_component"
    /\ UNCHANGED req

\* clear_db: connect, then DELETE FROM docs_sections.
ClearDbDeleteSections ==
    /\ pc = "idle"
    /\ conn' = "open"
    /\ args' = [op |-> "clear_db"]
    /\ txn' = SqlDeleteSections(disk)
    /\ pc' = "clear_db:components"
    /\ ret' = Nothing
    /\ UNCHANGED <<disk, last_commit, req>>

\* clear_db: DELETE FROM components, in the same transaction.
ClearDbDeleteComponents ==
    /\ pc = "clear_db:components"
    /\ txn' = SqlDeleteComponents(txn)
    /\ pc' = "clear_db:commit"
    /\ ret' = Nothing
    /\ UNCHANGED <<disk, conn, args, last_commit, req>>

\* clear_db: conn.commit(), then the connection is closed.
ClearDbCommit ==
    /\ pc = "clear_db:commit"
    /\ disk' = SqlCommit(disk, txn)
    /\ txn' = disk'
    /\ conn' = GetConnectionExit("returned")
    /\ pc' = "idle"
    /\ ret' = Returned(args)
    /\ args' = Nothing
    /\ last_commit' = "clear_db"
    /\ UNCHANGED req

\* get_connection's finally: a statement or the commit raises (sqlite3.Error);
\* the connection is closed with its transaction open, which rolls it back,
\* and the exception goes on to the caller.
WriteRaises ==
    /\ pc # "idle"
    /\ disk' = SqlRollback(disk, txn)
    /\ txn' = disk'
    /\ conn' = GetConnectionExit("raised")
    /\ pc' = "idle"
    /\ ret' = Raised(args, pc)
    /\ args' = Nothing
    /\ UNCHANGED <<last_commit, req>>

\* The process dies inside a write: the open transaction is never committed,
\* and SQLite's journal leaves the file at its last commit.
WriteCrashes ==
    /\ pc # "idle"
    /\ disk' = SqlRollback(disk, txn)
    /\ txn' = disk'
    /\ conn' = "closed"
    /\ pc' = "idle"
    /\ ret' = Crashed(args, pc)
    /\ args' = Nothing
    /\ UNCHANGED <<last_commit, req>>

\* ------------------------------------------------------------------ queries

None == [none |-> TRUE]

\* ORDER BY <key>: every listing of the keyed rows <<key, row>> in ascending key
\* order; rows with equal keys come in whatever order the engine produces.
RECURSIVE OrderBy(_)
OrderBy(keyed) ==
    IF keyed = {} THEN {<<>>}
    ELSE UNION {{<<m[2]>> \o rest : rest \in OrderBy(keyed \ {m})} :
                    m \in {k \in keyed : \A o \in keyed : k[1] <= o[1]}}

\* cursor.fetchone(): the first row of the result, or None.
FetchOne(rows) == IF rows = {} THEN None ELSE CHOOSE r \in rows : TRUE

\* DocSection(heading=..., level=..., content=...)
DocSection(row) ==
    [heading |-> row.heading, level |-> row.level, content |-> row.content]

\* DocPage(slug=rows[0]["slug"], title=rows[0]["title"], url=rows[0]["url"], ...)
DocPage(rows) ==
    [slug |-> rows[1].slug, title |-> rows[1].title, url |-> rows[1].url,
     sections |-> [i \in 1..Len(rows) |-> DocSection(rows[i])]]

\* Faulty variant: the ORDER BY position is missing.
SelectPageRowsUnordered(db, slug) ==
    OrderBy({<<0, r>> : r \in {s \in db.docs_sections : s.slug = slug}})

\* SELECT ... FROM docs_sections WHERE slug = ? ORDER BY position
SelectPageRows(db, slug) ==
    OrderBy({<<r.position, r>> : r \in {s \in db.docs_sections : s.slug = slug}})

\* get_page_sections(slug): the values it can return.
GetPageSections(db, slug) ==
    {IF rows = <<>> THEN None ELSE DocPage(rows) : rows \in SelectPageRows(db, slug)}

\* SELECT COUNT(*) as count FROM docs_sections
CountSections(db) == Cardinality(db.docs_sections)

\* Faulty variant: COUNT(slug), the number of rows.
CountPagesOfRows(db) == Cardinality(db.docs_sections)

\* SELECT COUNT(DISTINCT slug) as count FROM docs_sections
CountPages(db) == Cardinality({r.slug : r \in db.docs_sections})

\* SELECT COUNT(*) as count FROM components
CountComponents(db) == Cardinality(db.components)

\* get_stats(), its three statements reading the same content.
GetStats(db) ==
    [sections |-> CountSections(db),
     pages |-> CountPages(db),
     components |-> CountComponents(db)]

\* ComponentInfo(name=..., category=..., description=..., doc_slug=..., url=...)
ComponentInfo(row) ==
    [name |-> row.name, category |-> row.category,
     description |-> row.description, doc_slug |-> row.doc_slug, url |-> row.url]

\* SELECT * FROM components WHERE name = ?
SelectComponent(db, name) == {c \in db.components : c.name = name}

\* search_name = name if name.startswith("rx.") else f"rx.{name}"
SearchName(name) == IF StartsWith(name, RX) THEN name ELSE RX \o name

\* name.replace("rx.", "")
FallbackName(name) == Replace(name, RX, <<>>)

\* Faulty variant: the name as given is looked up before the prefixed one.
GetComponentByNameBareFirst(db, name) ==
    LET first  == FetchOne(SelectComponent(db, FallbackName(name)))
        second == FetchOne(SelectComponent(db, SearchName(name)))
        row    == IF first = None THEN second ELSE first
    IN  [lookups |-> IF first = None THEN <<FallbackName(name), SearchName(name)>>
                     ELSE <<FallbackName(name)>>,
         value |-> IF row = None THEN None ELSE ComponentInfo(row)]

\* get_component_by_name(name): the names it looked up, in order, and its value.
GetComponentByName(db, name) ==
    LET first  == FetchOne(SelectComponent(db, SearchName(name)))
        second == FetchOne(SelectComponent(db, FallbackName(name)))
        row    == IF first = None THEN second ELSE first
    IN  [lookups |-> IF first = None THEN <<SearchName(name), FallbackName(name)>>
                     ELSE <<SearchName(name)>>,
         value |-> IF row = None THEN None ELSE ComponentInfo(row)]

\* The code point of a character (ORDER BY name compares text bytewise).
Ord(c) ==
    CASE c = " " -> 32 [] c = "\"" -> 34 [] c = "." -> 46
      [] c = "a" -> 97 [] c = "b" -> 98 [] c = "d" -> 100 [] c = "e" -> 101
      [] c = "g" -> 103 [] c = "h" -> 104 [] c = "l" -> 108 [] c = "p" -> 112
      [] c = "q" -> 113 [] c = "r" -> 114 [] c = "s" -> 115 [] c = "t" -> 116
      [] c = "u" -> 117 [] c = "w" -> 119 [] c = "x" -> 120

\* s < t, bytewise (memcmp, then the shorter first).
RECURSIVE TextLess(_, _)
TextLess(s, t) ==
    IF t = <<>> THEN FALSE
    ELSE IF s = <<>> THEN TRUE
    ELSE IF Head(s) = Head(t) THEN TextLess(Tail(s), Tail(t))
    ELSE Ord(Head(s)) < Ord(Head(t))

\* ORDER BY name: the rank of a row is the number of rows whose name is smaller.
OrderByName(rows) ==
    OrderBy({<<Cardinality({o \in rows : TextLess(o.name, r.name)}), r>> : r \in rows})

\* list_all_components(category): `if category:` is false for None and for "".
ListAllComponents(db, category) ==
    LET rows == IF category # NULL /\ category # <<>>
                THEN {c \in db.components : c.category = category}
                ELSE db.components
    IN  {[i \in 1..Len(ordered) |-> ComponentInfo(ordered[i])] :
            ordered \in OrderByName(rows)}

\* ------------------------------------------------------------------- search

\* The characters str.split() and the fts5 query parser treat as separators
\* (of those used here).
Whitespace == {" ", "\t"}
Quote == "\""

\* The characters the unicode61 tokenizer keeps in a token (of those used here).
TokenChars == {"a", "b", "d", "e", "g", "h", "l", "p", "q", "r", "s", "t", "u", "w", "x"}

\* The n-th smallest number of a set of numbers.
Nth(S, n) == CHOOSE i \in S : Cardinality({j \in S : j < i}) = n - 1

\* The maximal runs of characters of `keep` in s, left to right: the n-th run
\* goes from the n-th position where a run starts to the n-th where one ends.
Runs(s, keep) ==
    LET starts == {i \in 1..Len(s) : s[i] \in keep /\ (i = 1 \/ s[i - 1] \notin keep)}
        ends   == {i \in 1..Len(s) : s[i] \in keep /\ (i = Len(s) \/ s[i + 1] \notin keep)}
    IN  [n \in 1..Cardinality(starts) |-> SubSeq(s, Nth(starts, n), Nth(ends, n))]

\* query.strip().split(): the runs of non-whitespace characters.
Split(query) == Runs(query, Range(query) \ Whitespace)

\* sep.join(parts)
RECURSIVE Join(_, _)
Join(sep, parts) ==
    IF parts = <<>> THEN <<>>
    ELSE IF Len(parts) = 1 THEN parts[1]
    ELSE parts[1] \o sep \o Join(sep, Tail(parts))

\* " ".join(f'"{term}"' for term in terms)
EscapedQuery(terms) ==
    Join(<<" ">>, [i \in 1..Len(terms) |-> <<Quote>> \o terms[i] \o <<Quote>>])

\* The fts5 query parser on the MATCH operand: quoted strings ("" inside a
\* string is a literal quote) and barewords, separated by whitespace, are the
\* phrases of an implicit AND; anything else, an unterminated string and an
\* expression without a phrase are errors (sqlite3.OperationalError).
RECURSIVE Fts5String(_, _)
Fts5String(s, cur) ==
    IF s = <<>> THEN [ok |-> FALSE, phrase |-> cur, rest |-> <<>>]
    ELSE IF Head(s) # Quote THEN Fts5String(Tail(s), Append(cur, Head(s)))
    ELSE IF Len(s) >= 2 /\ s[2] = Quote THEN Fts5String(Drop(s, 2), Append(cur, Quote))
    ELSE [ok |-> TRUE, phrase |-> cur, rest |-> Tail(s)]

RECURSIVE Fts5Bareword(_, _)
Fts5Bareword(s, cur) ==
    IF s # <<>> /\ Head(s) \in TokenChars THEN Fts5Bareword(Tail(s), Append(cur, Head(s)))
    ELSE [ok |-> TRUE, phrase |-> cur, rest |-> s]

RECURSIVE Fts5Parse(_, _)
Fts5Parse(s, phrases) ==
    IF s = <<>> THEN [ok |-> phrases # <<>>, phrases |-> phrases]
    ELSE IF Head(s) \in Whitespace THEN Fts5Parse(Tail(s), phrases)
    ELSE IF Head(s) = Quote \/ Head(s) \in TokenChars THEN
        LET p == IF Head(s) = Quote THEN Fts5String(Tail(s), <<>>)
                 ELSE Fts5Bareword(s, <<>>)
        IN  IF p.ok THEN Fts5Parse(p.rest, Append(phrases, p.phrase))
            ELSE [ok |-> FALSE, phrases |-> phrases]
    ELSE [ok |-> FALSE, phrases |-> phrases]

\* The tokens of a text: the tokenizer splits at every other character.
Tokenize(text) == Runs(text, TokenChars)

\* The tokens of phrase occur next to each other, in order, in tokens.
PhraseIn(phrase, tokens) ==
    /\ phrase # <<>>
    /\ \E i \in 1..Len(tokens) :
           /\ i + Len(phrase) - 1 <= Len(tokens)
           /\ SubSeq(tokens, i, i + Len(phrase) - 1) = phrase

\* docs_sections_fts MATCH ?: the entries that hold every phrase in a column.
Fts5Match(db, phrases) ==
    {e \in db.docs_sections_fts :
        \A i \in 1..Len(phrases) :
            \E column \in {e.slug, e.title, e.heading, e.content} :
                PhraseIn(Tokenize(phrases[i]), Tokenize(column))}

\* FROM docs_sections_fts fts JOIN docs_sections s ON fts.rowid = s.id WHERE ... MATCH ?
MatchedRows(db, phrases) ==
    {r \in db.docs_sections : \E e \in Fts5Match(db, phrases) : e.rowid = r.id}

\* bm25(docs_sections_fts): minus the BM25 relevance of the row, a negative
\* number whose size depends on term and document statistics; any assignment
\* of negative scores to the matched rows.
RawScores == (0 - MaxScore)..(0 - 1)
Bm25(rows) == [{r.id : r \in rows} -> RawScores]

\* Faulty variant: ORDER BY score DESC.
OrderByScoreDescending(rows, raw) == OrderBy({<<0 - raw[r.id], r>> : r \in rows})

\* ORDER BY score
OrderByScore(rows, raw) == OrderBy({<<raw[r.id], r>> : r \in rows})

\* Faulty variant: the LIMIT clause is missing.
SqlLimitMissing(rows, limit) == rows

\* LIMIT ?: the first limit rows; a negative limit is no limit.
SqlLimit(rows, limit) == IF limit < 0 THEN rows ELSE Take(rows, limit)

Abs(x) == IF x < 0 THEN 0 - x ELSE x

SnippetLen == 200

\* Faulty variant: a content of exactly 200 characters is cut as well.
SnippetCutsAtLimit(content) ==
    IF Len(content) >= SnippetLen THEN Take(content, SnippetLen) \o <<".", ".", ".">>
    ELSE content

\* content[:200] + "..." if len(content) > 200 else content
Snippet(content) ==
    IF Len(content) > SnippetLen THEN Take(content, SnippetLen) \o <<".", ".", ".">>
    ELSE content

\* DocResult(slug=..., title=..., score=abs(row["score"]), snippet=..., url=...)
DocResult(row, score) ==
    [slug |-> row.slug, title |-> row.title, score |-> Abs(score),
     snippet |-> Snippet(row.content), url |-> row.url]

\* Faulty variant: the early return for an empty term list is missing.
NoTermsIgnored(terms) == FALSE

\* if not terms: return []
NoTerms(terms) == terms = <<>>

\* search_sections(query, limit): what it can do: return a list of results
\* (with the scores the engine gave the matched rows) or raise.  `executed`
\* tells whether cursor.execute ran the MATCH statement, and `match` is the
\* string it was given.
SearchSections(db, query, limit) ==
    LET terms  == Split(query)
        match  == EscapedQuery(terms)
        parsed == Fts5Parse(match, <<>>)
        rows   == MatchedRows(db, parsed.phrases)
    IN  IF NoTerms(terms) THEN
            {[raised |-> FALSE, executed |-> FALSE, match |-> <<>>,
              raw |-> <<>>, value |-> <<>>]}
        ELSE IF ~parsed.ok THEN
            {[raised |-> TRUE, executed |-> TRUE, match |-> match,
              raw |-> <<>>, value |-> <<>>]}
        ELSE UNION {{[raised |-> FALSE, executed |-> TRUE, match |-> match,
                      raw |-> raw,
                      value |-> [i \in 1..Len(SqlLimit(ranked, limit)) |->
                                    DocResult(ranked[i], raw[ranked[i].id])]] :
                        ranked \in OrderByScore(rows, raw)} :
                    raw \in Bm25(rows)}

\* ---------------------------------------------------- the server (api.py)

\* A request is served from the committed file: the writer's open transaction
\* is invisible to other connections, so a request that arrives while a write
\* is in progress reads what it would have read before the write began.
\* A request changes nothing in the store, so the requests that can follow a
\* request are those that can follow the step before it: they are taken from
\* there, and a request is explored only after a step of the writer.
RequestOps == {"get_doc", "get_stats", "get_component", "list_components", "search_docs"}
Serving == pc = "idle" /\ ret.op \notin RequestOps

\* GET /doc/{slug}: 404 when get_page_sections returns None.
GetDoc ==
    /\ Serving
    /\ \E slug \in Slugs : \E page \in GetPageSections(disk, slug) :
           ret' = [op |-> "get_doc", slug |-> slug, value |-> page,
                   status |-> IF page = None THEN 404 ELSE 200]
    /\ UNCHANGED <<disk, txn, conn, pc, args, last_commit, req>>

\* GET /stats
GetStatsRequest ==
    /\ Serving
    /\ ret' = [op |-> "get_stats", value |-> GetStats(disk), status |-> 200]
    /\ UNCHANGED <<disk, txn, conn, pc, args, last_commit, req>>

\* GET /component/{name}: 404 when get_component_by_name returns None.
GetComponent(names) ==
    /\ Serving
    /\ \E name \in names :
           LET got == GetComponentByName(disk, name)
           IN  ret' = [op |-> "get_component", name |-> name,
                       lookups |-> got.lookups, value |-> got.value,
                       status |-> IF got.value = None THEN 404 ELSE 200]
    /\ UNCHANGED <<disk, txn, conn, pc, args, last_commit, req>>

\* GET /components?category=
ListComponents(categories) ==
    /\ Serving
    /\ \E category \in categories : \E listed \in ListAllComponents(disk, category) :
           ret' = [op |-> "list_components", category |-> category,
                   value |-> listed, status |-> 200]
    /\ UNCHANGED <<disk, txn, conn, pc, args, last_commit, req>>

\* GET /search?query=&limit=: a limit outside Query(10, ge=1, le=50) is
\* rejected before the handler runs; an exception of search_sections
\* becomes a 500.
SearchDocs(queries, limits) ==
    /\ Serving
    /\ \E query \in queries : \E limit \in {l \in limits : LimitMin <= l /\ l <= LimitMax} :
           \E found \in SearchSections(disk, query, limit) :
               ret' = [op |-> "search_docs", query |-> query, limit |-> limit,
                       executed |-> found.executed, match |-> found.match,
                       raw |-> found.raw, value |-> found.value,
                       status |-> IF found.raised THEN 500 ELSE 200]
    /\ UNCHANGED <<disk, txn, conn, pc, args, last_commit, req>>

\* The queries and limits the search requests of the model carry.
Queries ==
    {<<>>, <<" ">>, <<"\t", " ">>, <<"a">>, <<"b">>, <<" ", "b", " ", "\t", "a">>,
     <<"x">>, <<"a", Quote>>, <<"a", Quote, "b">>}
Limits == {l \in 0..(LimitMax + 1) : l <= MaxLimit \/ l >= LimitMax}

\* The writer's steps, over the given inputs.
Writes(sections, maxSection, components, maxComponent) ==
    \/ InsertSectionExecute(sections, maxSection)
    \/ InsertSectionCommit
    \/ InsertComponentExecute(components, maxComponent)
    \/ InsertComponentCommit
    \/ ClearDbDeleteSections
    \/ ClearDbDeleteComponents
    \/ ClearDbCommit
    \/ WriteRaises
    \/ WriteCrashes

\* The names and categories the requests of the model ask for.
LookupNames == CatalogNames \cup {<<"a", "r", "x", ".">>, <<"b">>}
Categories == {NULL, <<>>, <<"l">>}

\* The store: sections, their index and the transactions that write them.
Next ==
    \/ Writes(SectionInputs, MaxSectionId,
              ComponentInputsOf(StoreComponentNames), MaxComponentId)
    \/ GetDoc
    \/ GetStatsRequest
    \/ GetComponent(StoreComponentNames \cup {<<"a">>})

\* The component catalog: upserts, lookups by name and listings.
NextCatalog ==
    \/ InsertComponentExecute(ComponentInputsOf(CatalogNames), MaxCatalogId)
    \/ InsertComponentCommit
    \/ ClearDbDeleteSections
    \/ ClearDbDeleteComponents
    \/ ClearDbCommit
    \/ WriteRaises
    \/ WriteCrashes
    \/ GetComponent(LookupNames)
    \/ ListComponents(Categories)
    \/ GetStatsRequest

SpecCatalog == Init /\ [][NextCatalog]_vars

Spec == Init /\ [][Next]_vars

\* Search: sections, then queries against their index.
NextSearch ==
    \/ InsertSectionExecute(SearchSectionInputs, MaxSearchSectionId)
    \/ InsertSectionCommit
    \/ ClearDbDeleteSections
    \/ ClearDbDeleteComponents
    \/ ClearDbCommit
    \/ WriteRaises
    \/ WriteCrashes
    \/ SearchDocs(Queries, Limits)

SpecSearch == Init /\ [][NextSearch]_vars

\* ------------------------------------------------------------ long contents

\* Sections whose content is as long as the snippet limit, give or take: the
\* word "b", then one long word (or dots) with its own characters on both
\* sides of the limit.
SnippetLengths ==
    {3} \cup ((SnippetLen - SnippetSlack)..(SnippetLen + 3 + SnippetSlack))
LongContent(n, fill) ==
    [i \in 1..n |-> IF i = 1 THEN "b" ELSE IF i = 2 THEN " "
                    ELSE IF i = SnippetLen THEN "d"
                    ELSE IF i = SnippetLen + 1 THEN "e" ELSE fill]
SnippetSectionInputs ==
    {[slug |-> <<"p">>, title |-> <<"t">>, heading |-> <<"h">>, level |-> 1,
      content |-> LongContent(n, fill), position |-> 0, url |-> <<"u">>] :
        n \in SnippetLengths, fill \in {"a", "."}}

\* Searches over sections with long contents.
NextSnippet ==
    \/ InsertSectionExecute(SnippetSectionInputs, MaxSnippetSectionId)
    \/ InsertSectionCommit
    \/ WriteRaises
    \/ SearchDocs({<<"b">>, <<"x">>}, {LimitMin, LimitMin + 1})

SpecSnippet == Init /\ [][NextSnippet]_vars

\* ---------------------------------------------------------------- ingestion

\* The ingester alone: sections and components under several names.
NextIngest ==
    Writes(SearchSectionInputs, MaxRequestSectionId,
           ComponentInputsOf(CatalogNames), MaxCatalogId)

SpecIngest == Init /\ [][NextIngest]_vars

\* ------------------------------------------- requests, statement by statement

\* Faulty variant: a reader sees the uncommitted writes of another connection.
VisibleUncommitted(committed, working) == working

\* sqlite3.connect(DB_PATH) per operation: the connection of a request reads the
\* committed content; the open transaction of the writer's connection is
\* invisible to it.
Visible(committed, working) == committed

\* What a handler answers when the store raises inside it: health_check
\* catches and answers with status "error"; search_docs raises
\* HTTPException(500); the other handlers do not catch, and the framework
\* answers an unhandled exception with 500.
Failure(op) ==
    IF op = "health_check"
    THEN [status |-> 200,
          value |-> [status |-> "error", database_ready |-> FALSE, stats |-> None]]
    ELSE [status |-> 500, value |-> [detail |-> "error"]]

\* HealthResponse(status="healthy" if db_ready else "no_data", ...)
Health(stats) ==
    [status |-> IF stats.sections > 0 THEN "healthy" ELSE "no_data",
     database_ready |-> stats.sections > 0, stats |-> stats]

\* The answer of the request in progress, and the server after it: `exit` is
\* the way the with block of the database function was left, `began` the
\* committed content when the request connected.
Answer(exit, status, value) ==
    [op |-> req.op, arg |-> req.arg, began |-> req.began,
     exit |-> exit, status |-> status, value |-> value]
Exit(exit) == [op |-> "none", conn |-> GetConnectionExit(exit)]

\* with get_connection() as conn: the request opens its connection.
Connect(calls) ==
    /\ req.op = "none"
    /\ \E call \in calls :
           req' = [op |-> call.op, arg |-> call.arg, conn |-> "open",
                   at |-> 1, got |-> <<>>, began |-> disk]
    /\ ret' = Nothing
    /\ UNCHANGED <<disk, txn, conn, pc, args, last_commit>>

\* GET /search: search_sections returns [] before the statement when there are
\* no terms, returns its results, or raises.
SearchStep ==
    /\ req.op = "search_docs"
    /\ \E found \in SearchSections(Visible(disk, txn), req.arg.query, req.arg.limit) :
           LET exit == IF found.raised THEN "raised"
                       ELSE IF found.executed THEN "returned" ELSE "empty"
           IN  /\ ret' = IF found.raised
                         THEN Answer(exit, Failure(req.op).status, Failure(req.op).value)
                         ELSE Answer(exit, 200, found.value)
               /\ req' = Exit(exit)
    /\ UNCHANGED <<disk, txn, conn, pc, args, last_commit>>

\* GET /doc/{slug}: get_page_sections returns None when there are no rows.
GetDocStep ==
    /\ req.op = "get_doc"
    /\ \E page \in GetPageSections(Visible(disk, txn), req.arg) :
           LET exit == IF page = None THEN "not_found" ELSE "returned"
           IN  /\ ret' = Answer(exit, IF page = None THEN 404 ELSE 200, page)
               /\ req' = Exit(exit)
    /\ UNCHANGED <<disk, txn, conn, pc, args, last_commit>>

\* GET /component/{name}: both lookups of get_component_by_name.
GetComponentStep ==
    /\ req.op = "get_component"
    /\ LET got  == GetComponentByName(Visible(disk, txn), req.arg)
           exit == IF got.value = None THEN "not_found" ELSE "returned"
       IN  /\ ret' = Answer(exit, IF got.value = None THEN 404 ELSE 200, got.value)
           /\ req' = Exit(exit)
    /\ UNCHANGED <<disk, txn, conn, pc, args, last_commit>>

\* GET /components
ListComponentsStep ==
    /\ req.op = "list_components"
    /\ \E listed \in ListAllComponents(Visible(disk, txn), req.arg) :
           ret' = Answer("returned", 200, listed)
    /\ req' = Exit("returned")
    /\ UNCHANGED <<disk, txn, conn, pc, args, last_commit>>

\* get_stats, called by GET /stats and by GET /: its three SELECT statements
\* run one after the other outside any transaction, each reading the content
\* committed when it runs.
StatsOps == {"get_stats", "health_check"}

StatsCountSections ==
    /\ req.op \in StatsOps /\ req.at = 1
    /\ req' = [req EXCEPT !.at = 2, !.got = <<CountSections(Visible(disk, txn))>>]
    /\ ret' = Nothing
    /\ UNCHANGED <<disk, txn, conn, pc, args, last_commit>>

StatsCountPages ==
    /\ req.op \in StatsOps /\ req.at = 2
    /\ req' = [req EXCEPT !.at = 3, !.got = Append(@, CountPages(Visible(disk, txn)))]
    /\ ret' = Nothing
    /\ UNCHANGED <<disk, txn, conn, pc, args, last_commit>>

\* The third count, and the answer built from the three.
StatsCountComponents ==
    /\ req.op \in StatsOps /\ req.at = 3
    /\ LET stats == [sections |-> req.got[1], pages |-> req.got[2],
                     components |-> CountComponents(Visible(disk, txn))]
       IN  ret' = Answer("returned", 200,
                         IF req.op = "health_check" THEN Health(stats) ELSE stats)
    /\ req' = Exit("returned")
    /\ UNCHANGED <<disk, txn, conn, pc, args, last_commit>>

\* The store raises (sqlite3.Error) inside the request: the with block is left
\* by the exception, and the handler answers as Failure says.
RequestFails ==
    /\ req.op # "none"
    /\ ret' = Answer("raised", Failure(req.op).status, Failure(req.op).value)
    /\ req' = Exit("raised")
    /\ UNCHANGED <<disk, txn, conn, pc, args, last_commit>>

\* The calls the requests of the model make.
Call(op, arg) == [op |-> op, arg |-> arg]
RequestCalls ==
    {Call("search_docs", [query |-> q, limit |-> LimitMin]) :
        q \in {<<>>, <<"a">>, <<"b">>, <<"a", Quote>>}}
    \cup {Call("get_doc", slug) : slug \in Slugs}
    \cup {Call("get_component", name) : name \in CatalogNames}
    \cup {Call("list_components", category) : category \in Categories}
    \cup {Call(op, <<>>) : op \in StatsOps}
StatsCalls == {Call(op, <<>>) : op \in StatsOps}

\* Operations one at a time: the writer steps between requests.
Between == req.op = "none"

NextRequests ==
    \/ Between /\ InsertSectionExecute(SearchSectionInputs, MaxRequestSectionId)
    \/ Between /\ InsertSectionCommit
    \/ Between /\ InsertComponentExecute(ComponentInputsOf(StoreComponentNames),
                                         MaxRequestComponentId)
    \/ Between /\ InsertComponentCommit
    \/ Between /\ ClearDbDeleteSections
    \/ Between /\ ClearDbDeleteComponents
    \/ Between /\ ClearDbCommit
    \/ Between /\ WriteRaises
    \/ Between /\ WriteCrashes
    \/ Connect(RequestCalls)
    \/ SearchStep
    \/ GetDocStep
    \/ GetComponentStep
    \/ ListComponentsStep
    \/ StatsCountSections
    \/ StatsCountPages
    \/ StatsCountComponents
    \/ RequestFails

SpecRequests == Init /\ [][NextRequests]_vars

\* The ingester is another process: its steps and its commits fall anywhere
\* between the statements of a statistics request.
StatsSectionInputs == {a \in SectionInputs : a.position = 0 /\ a.level = 1}

NextStats ==
    \/ Writes(StatsSectionInputs, MaxRequestSectionId,
              ComponentInputsOf(StoreComponentNames), MaxRequestComponentId)
    \/ Connect(StatsCalls)
    \/ StatsCountSections
    \/ StatsCountPages
    \/ StatsCountComponents
    \/ RequestFails

SpecStats == Init /\ [][NextStats]_vars

\* ------------------------------------------------------------------ claims

WriteOps == {"insert_section", "insert_component", "clear_db"}

\* The index holds exactly one entry per section, with the section's values.
IndexInSync(db) ==
    /\ {e.rowid : e \in db.docs_sections_fts} = {r.id : r \in db.docs_sections}
    /\ Cardinality(db.docs_sections_fts) = Cardinality(db.docs_sections)
    /\ \A e \in db.docs_sections_fts : \E r \in db.docs_sections :
           /\ r.id = e.rowid
           /\ r.slug = e.slug /\ r.title = e.title
           /\ r.heading = e.heading /\ r.content = e.content

\* C1: after any sequence of insert_section and clear_db, the committed index
\* has exactly one entry per committed section and none for a section that
\* does not exist, each entry carrying its section's slug, title, heading and
\* content.
C1_IndexMatchesSections == IndexInSync(disk)

\* C1 witness: a section inserted after a clear_db that removed an indexed one.
C1_Witness ==
    /\ last_commit = "insert_section"
    /\ Cardinality(disk.docs_sections) = 1
    /\ \E r \in disk.docs_sections : r.id = 2

\* C2: a write that ends without its commit (an exception, a crash) leaves the
\* committed sections, index and components as they were and reports the
\* failure; nothing is visible before the commit; a write that returns
\* normally has committed its whole transaction; the committed index matches
\* the committed sections after every step.
C2_AllOrNothing ==
    [][/\ pc' # "idle" => disk' = disk
       /\ (pc # "idle" /\ pc' = "idle") =>
             /\ ret'.op \in WriteOps
             /\ IF ret'.status = "ok" THEN disk' = txn
                ELSE disk' = disk /\ ret'.status \in {"raised", "crashed"}
       /\ (ret'.op \in WriteOps /\ ret'.status = "ok") => pc = ret'.op \o ":commit"
       /\ IndexInSync(disk')]_vars

\* C2 witness: clear_db failed after both DELETE statements had run, and the
\* sections and components are still there.
C2_Witness ==
    /\ ret.op = "clear_db"
    /\ ret.status = "raised"
    /\ ret.at = "clear_db:commit"
    /\ disk.docs_sections # {}
    /\ disk.components # {}

\* Every listing of the set rows, each row once.
Listings(rows) ==
    {f \in [1..Cardinality(rows) -> rows] : \A r \in rows : \E i \in DOMAIN f : f[i] = r}

\* C3: get_page_sections(slug) returns None exactly when no section has the
\* slug; otherwise its sections are the sections of that slug, each once, in
\* non-decreasing position order, and its slug, title and url are those of
\* the first of them, a section of lowest position.
C3_PageInPositionOrder ==
    ret.op = "get_doc" =>
        LET rows == {r \in disk.docs_sections : r.slug = ret.slug}
        IN  /\ (ret.value = None) <=> (rows = {})
            /\ (ret.status = 404) <=> (rows = {})
            /\ rows # {} =>
                  \E f \in Listings(rows) :
                      /\ \A i \in 1..(Len(f) - 1) : f[i].position <= f[i + 1].position
                      /\ \A r \in rows : f[1].position <= r.position
                      /\ ret.value.sections = [i \in 1..Len(f) |-> DocSection(f[i])]
                      /\ ret.value.slug = ret.slug
                      /\ ret.value.title = f[1].title
                      /\ ret.value.url = f[1].url

\* C3 witness: a page of two different sections, the one inserted last first.
C3_Witness ==
    /\ ret.op = "get_doc"
    /\ ret.value # None
    /\ Len(ret.value.sections) = 2
    /\ ret.value.sections[1] # ret.value.sections[2]
    /\ \E r, o \in disk.docs_sections :
           /\ r.slug = ret.slug /\ o.slug = ret.slug
           /\ r.id < o.id /\ r.position > o.position /\ r.title # o.title

\* C4: from clear_db's commit until the next commit, get_stats returns zero
\* pages, sections and components, and get_page_sections and
\* get_component_by_name return None for every slug and name.
C4_EmptyAfterClear ==
    last_commit = "clear_db" =>
        /\ GetStats(disk) = [sections |-> 0, pages |-> 0, components |-> 0]
        /\ \A slug \in Slugs : GetPageSections(disk, slug) = {None}
        /\ \A name \in LookupNames : GetComponentByName(disk, name).value = None
        /\ ret.op = "get_stats" =>
              ret.value = [sections |-> 0, pages |-> 0, components |-> 0]
        /\ ret.op \in {"get_doc", "get_component"} =>
              ret.value = None /\ ret.status = 404

\* C4 witness: get_stats answered after a clear_db of a store that had held
\* sections and components.
C4_Witness ==
    /\ last_commit = "clear_db"
    /\ ret.op = "get_stats"
    /\ disk.seq_sections > 0
    /\ disk.seq_components > 0

\* ---------------------------------------------------- claims on the catalog

NameChars == {"r", "x", ".", "a"}

\* Every name of at most MaxNameLen characters.
AllNames == UNION {[1..n -> NameChars] : n \in 0..MaxNameLen}

\* The names that do not carry the rx. prefix.
BareNames == {n \in AllNames : ~StartsWith(n, RX)}

Exists(db, name) == SelectComponent(db, name) # {}

\* The name with a leading rx. removed and nothing else changed.
WithoutPrefix(name) == IF StartsWith(name, RX) THEN Drop(name, Len(RX)) ELSE name

RowsNamed(db, name) == {ComponentInfo(c) : c \in SelectComponent(db, name)}

\* C5: no two component rows share a name; a committed insert_component
\* leaves exactly one row of its name, carrying exactly its category,
\* description, doc_slug and url (NULL included); the row of a name changes
\* only by a committed insert_component of that name or a committed
\* clear_db; list_all_components never lists a name twice.
C5_UpsertReplacesByName ==
    [][/\ \A c, d \in disk'.components : c.name = d.name => c = d
       /\ (pc = "insert_component:commit" /\ ret'.status = "ok") =>
             /\ Cardinality(SelectComponent(disk', ret'.args.a.name)) = 1
             /\ RowsNamed(disk', ret'.args.a.name) = {ret'.args.a}
       /\ \A n \in CatalogNames :
             RowsNamed(disk', n) # RowsNamed(disk, n) =>
               /\ ret'.status = "ok"
               /\ \/ ret'.op = "clear_db"
                  \/ ret'.op = "insert_component" /\ ret'.args.a.name = n
       /\ ret'.op = "list_components" =>
             \A i, j \in 1..Len(ret'.value) :
                 ret'.value[i].name = ret'.value[j].name => i = j]_vars

\* C5 witness: the third insert_component replaced the row of the second with
\* NULL category, doc_slug and url, the first row still in place.
C5_Witness ==
    /\ ret.op = "insert_component"
    /\ ret.status = "ok"
    /\ ret.args.a.category = NULL
    /\ {c.id : c \in disk.components} = {1, 3}
    /\ \E c \in disk.components : c.id = 3 /\ c.category = NULL /\ c.url = NULL

\* C6: for every bare name n, get_component_by_name(n) and
\* get_component_by_name("rx." + n) return the same record when a component
\* named "rx." + n exists, and both return None when neither "rx." + n nor n
\* exists.
C6_AliasLookup ==
    \A n \in BareNames :
        LET bare     == GetComponentByName(disk, n).value
            prefixed == GetComponentByName(disk, RX \o n).value
        IN  /\ Exists(disk, RX \o n) => bare = prefixed /\ bare # None
            /\ (~Exists(disk, RX \o n) /\ ~Exists(disk, n)) =>
                  bare = None /\ prefixed = None

\* C7: the second lookup of get_component_by_name uses the input with a
\* leading rx. removed and nothing else changed, and None is returned only if
\* neither the first lookup nor that one finds a component.
C7_FallbackStripsLeadingPrefixOnly ==
    ret.op = "get_component" =>
        /\ Len(ret.lookups) = 2 => ret.lookups[2] = WithoutPrefix(ret.name)
        /\ ret.value = None =>
              /\ ~Exists(disk, SearchName(ret.name))
              /\ ~Exists(disk, WithoutPrefix(ret.name))

\* C8: for a name without the rx. prefix the prefixed name is looked up
\* first; a component found by the first lookup is the one returned, without
\* a second lookup, so that with both "rx." + n and n in the catalog the
\* "rx." + n record is returned; the second lookup happens only when the
\* first found nothing.
C8_PrefixedNameFirst ==
    /\ ret.op = "get_component" =>
          /\ ~StartsWith(ret.name, RX) => ret.lookups[1] = RX \o ret.name
          /\ StartsWith(ret.name, RX) => ret.lookups[1] = ret.name
          /\ Exists(disk, ret.lookups[1]) =>
                /\ Len(ret.lookups) = 1
                /\ {ret.value} = RowsNamed(disk, ret.lookups[1])
          /\ Len(ret.lookups) = 2 <=> ~Exists(disk, ret.lookups[1])
    /\ \A n \in BareNames :
          (Exists(disk, RX \o n) /\ Exists(disk, n)) =>
              {GetComponentByName(disk, n).value} = RowsNamed(disk, RX \o n)

\* C8 witness: "a" asked for with both "a" and "rx.a" in the catalog, carrying
\* different values; the "rx.a" record is returned.
C8_Witness ==
    /\ ret.op = "get_component"
    /\ ret.name = <<"a">>
    /\ Exists(disk, <<"a">>)
    /\ Exists(disk, RX \o <<"a">>)
    /\ RowsNamed(disk, <<"a">>) # {[ret.value EXCEPT !.name = <<"a">>]}
    /\ ret.value.name = RX \o <<"a">>

\* ------------------------------------------------------- claims on the search

\* The rows that match the query of the search just answered.
Matched == MatchedRows(disk, Fts5Parse(EscapedQuery(Split(ret.query)), <<>>).phrases)

\* The full ranked lists: every matching row once, by ascending raw score.
Ranked ==
    {f \in Listings(Matched) :
        \A i \in 1..(Len(f) - 1) : ret.raw[f[i].id] <= ret.raw[f[i + 1].id]}

\* C9: a search answers with at most limit results, and they are the head of
\* the full ranked list of the matching rows, in its order.
C9_AtMostLimitInRankOrder ==
    (ret.op = "search_docs" /\ ret.status = 200) =>
        /\ Len(ret.value) <= ret.limit
        /\ \/ Split(ret.query) = <<>> /\ ret.value = <<>>
           \/ \E f \in Ranked :
                 /\ Len(ret.value) <= Len(f)
                 /\ \A i \in 1..Len(ret.value) :
                        ret.value[i] = DocResult(f[i], ret.raw[f[i].id])

\* C9 witness: three rows match, with different scores, and limit 2 cut the
\* answer to two.
C9_Witness ==
    /\ ret.op = "search_docs"
    /\ ret.status = 200
    /\ ret.limit = 2
    /\ Len(ret.value) = 2
    /\ Cardinality(Matched) = 3
    /\ ret.value[1].score # ret.value[2].score

\* C10: the reported scores are non-negative, each the absolute value of its
\* row's raw score, and never increase down the list, the rows being in
\* ascending raw-score order.
C10_ScoresNonIncreasing ==
    (ret.op = "search_docs" /\ ret.status = 200 /\ ret.value # <<>>) =>
        /\ \A i \in 1..Len(ret.value) : ret.value[i].score >= 0
        /\ \A i \in 1..(Len(ret.value) - 1) :
               ret.value[i].score >= ret.value[i + 1].score
        /\ \E f \in Listings(Matched) :
               /\ \A i \in 1..Len(ret.value) :
                      /\ ret.value[i].slug = f[i].slug
                      /\ ret.value[i].title = f[i].title
                      /\ ret.value[i].score = Abs(ret.raw[f[i].id])
               /\ \A i \in 1..(Len(ret.value) - 1) :
                      ret.raw[f[i].id] <= ret.raw[f[i + 1].id]

\* C10 witness: three results of two different sections, the first scored
\* higher than the last.
C10_Witness ==
    /\ ret.op = "search_docs"
    /\ ret.status = 200
    /\ Len(ret.value) = 3
    /\ ret.value[1].score > ret.value[3].score
    /\ ret.value[1].title # ret.value[3].title

\* C11: every query term reaches the index as a literal phrase: the string
\* given to MATCH parses, its phrases are exactly the whitespace-separated
\* terms of the query, and the search does not fail on it.
C11_TermsAreLiteralPhrases ==
    (ret.op = "search_docs" /\ ret.executed) =>
        LET parsed == Fts5Parse(ret.match, <<>>)
        IN  /\ parsed.ok
            /\ parsed.phrases = Split(ret.query)
            /\ ret.status # 500

\* C12: a query that is empty or made of whitespace only gets an empty list and
\* no error, whatever the store holds, and the MATCH statement is not executed.
C12_BlankQueryIsEmpty ==
    (ret.op = "search_docs" /\ Range(ret.query) \subseteq Whitespace) =>
        /\ ret.status = 200
        /\ ret.value = <<>>
        /\ ~ret.executed

C12_Witness ==
    /\ ret.op = "search_docs"
    /\ ret.query # <<>>
    /\ Range(ret.query) \subseteq Whitespace
    /\ disk.docs_sections # {}
    /\ ret.value = <<>>

\* ---------------------------------------------------------- request claims

AnswerOps == RequestOps \cup StatsOps

\* A record that the request asks for is in the store: a section holding every
\* term of the query, a section of the page, a component under the prefixed
\* name or under the name without its leading prefix, a component of the
\* category (any component when no category is given).
HasMatch(r) ==
    CASE r.op = "search_docs" ->
           LET terms == Split(r.arg.query)
           IN  /\ terms # <<>>
               /\ \E row \in disk.docs_sections : \A i \in 1..Len(terms) :
                      \E column \in {row.slug, row.title, row.heading, row.content} :
                          PhraseIn(Tokenize(terms[i]), Tokenize(column))
      [] r.op = "get_doc" -> \E row \in disk.docs_sections : row.slug = r.arg
      [] r.op = "get_component" ->
           \E c \in disk.components :
               c.name \in {IF StartsWith(r.arg, RX) THEN r.arg ELSE RX \o r.arg,
                           WithoutPrefix(r.arg)}
      [] r.op = "list_components" ->
           \E c \in disk.components : r.arg = NULL \/ c.category = r.arg
      [] OTHER -> FALSE

\* The answer is an empty list, a None or a 404.
EmptyOrNotFound(r) ==
    \/ r.status = 404
    \/ r.status = 200 /\ r.op \in {"search_docs", "list_components"} /\ r.value = <<>>
    \/ r.status = 200 /\ r.op \in {"get_doc", "get_component"} /\ r.value = None

\* The answer says that the request failed.
ExplicitFailure(r) ==
    \/ r.status = 500
    \/ r.op = "health_check" /\ r.value.status = "error"

\* C13: when the store fails inside a request the answer is an explicit
\* failure (500 or status "error"), never empty or not-found; and when a record
\* the request asks for exists and the store works, the answer is not empty
\* and not not-found.
C13_EmptyMeansNoMatch ==
    ret.op \in AnswerOps =>
        /\ ret.exit = "raised" => ExplicitFailure(ret) /\ ~EmptyOrNotFound(ret)
        /\ (ret.exit # "raised" /\ HasMatch(ret)) => ~EmptyOrNotFound(ret)

\* ---------------------------------------------------------- listing claims

\* C14: without a category the listing holds every component; with a category
\* (any supplied value) it holds exactly the components whose category equals
\* it; either way in ascending order of name.
C14_ListingFiltersByCategory ==
    ret.op = "list_components" =>
        LET expected == IF ret.category = NULL THEN disk.components
                        ELSE {c \in disk.components : c.category = ret.category}
        IN  /\ Len(ret.value) = Cardinality(expected)
            /\ {ret.value[i] : i \in 1..Len(ret.value)} = {ComponentInfo(c) : c \in expected}
            /\ \A i, j \in 1..Len(ret.value) :
                   i < j => TextLess(ret.value[i].name, ret.value[j].name)

\* ------------------------------------------------------- connection claims

\* C15: an operation holds a connection exactly while it runs: the writer's
\* and the server's connection are open inside an operation and closed once
\* it is over, however it ended (return, early return of an empty or
\* not-found result, exception).
C15_NoConnectionLeftOpen ==
    /\ conn = IF pc = "idle" THEN "closed" ELSE "open"
    /\ req.conn = IF req.op = "none" THEN "closed" ELSE "open"

\* A request has just ended by an exception, and no operation is running.
C15_Witness ==
    /\ ret.op \in AnswerOps
    /\ ret.exit = "raised"
    /\ req.op = "none"
    /\ req.conn = "closed"
    /\ pc = "idle"
    /\ conn = "closed"

\* ------------------------------------------------------- statistics claims

\* C16: the statistics count the section rows, the distinct slugs among them
\* (not the rows) and the component records of the store.
C16_StatsCountTheStore ==
    (ret.op = "get_stats" /\ ret.status = 200) =>
        /\ ret.value.sections = Cardinality({r.id : r \in disk.docs_sections})
        /\ ret.value.pages =
               Cardinality({slug \in Slugs : \E r \in disk.docs_sections : r.slug = slug})
        /\ ret.value.components = Cardinality({c.name : c \in disk.components})

\* Statistics of a store with two sections of one page and a component.
C16_Witness ==
    /\ ret.op = "get_stats"
    /\ ret.value.sections = 2
    /\ ret.value.pages = 1
    /\ ret.value.components = 1

\* ---------------------------------------------------------- snippet claims

\* C17: the snippet of a result is the content of its section when that has
\* at most 200 characters, and otherwise the first 200 characters of it
\* followed by "..."; it is never longer than 203 characters.
C17_SnippetIsBoundedPrefix ==
    (ret.op = "search_docs" /\ ret.status = 200) =>
        \A i \in 1..Len(ret.value) :
            LET snippet == ret.value[i].snippet
            IN  /\ Len(snippet) <= SnippetLen + 3
                /\ \E r \in disk.docs_sections :
                       /\ r.slug = ret.value[i].slug /\ r.url = ret.value[i].url
                       /\ Len(r.content) <= SnippetLen => snippet = r.content
                       /\ Len(r.content) > SnippetLen =>
                              /\ Len(snippet) = SnippetLen + 3
                              /\ \A k \in 1..SnippetLen : snippet[k] = r.content[k]
                              /\ \A k \in 1..3 : snippet[SnippetLen + k] = "."

\* A result whose section has a content of 201 characters or more.
C17_Witness ==
    /\ ret.op = "search_docs"
    /\ ret.status = 200
    /\ ret.value # <<>>
    /\ \E r \in disk.docs_sections : Len(r.content) > SnippetLen
    /\ Len(ret.value[1].snippet) = SnippetLen + 3

\* -------------------------------------------------------- ingestion claims

\* The step is the successful commit of the operation op.
Commits(op) == pc = op \o ":commit" /\ pc' = "idle" /\ ret'.status = "ok"

\* C18: insert_section adds one section under a new id with the values given,
\* and its index entry, and changes no other section, index entry or
\* component; insert_component changes no section, no index entry and no
\* component of another name; only clear_db removes a section.
C18_WritesChangeTheirOwnRecord ==
    [][/\ Commits("insert_section") =>
            LET added   == disk'.docs_sections \ disk.docs_sections
                indexed == disk'.docs_sections_fts \ disk.docs_sections_fts
            IN  /\ disk.docs_sections \subseteq disk'.docs_sections
                /\ disk.docs_sections_fts \subseteq disk'.docs_sections_fts
                /\ Cardinality(added) = 1
                /\ Cardinality(indexed) = 1
                /\ \A r \in added :
                       /\ r.id \notin {q.id : q \in disk.docs_sections}
                       /\ [k \in DOMAIN args.a |-> r[k]] = args.a
                       /\ \A e \in indexed : e.rowid = r.id /\ e.content = r.content
                /\ disk'.components = disk.components
       /\ Commits("insert_component") =>
            /\ disk'.docs_sections = disk.docs_sections
            /\ disk'.docs_sections_fts = disk.docs_sections_fts
            /\ {c \in disk'.components : c.name # args.a.name}
                  = {c \in disk.components : c.name # args.a.name}
            /\ Cardinality({c \in disk'.components : c.name = args.a.name}) = 1
       /\ ~(disk.docs_sections \subseteq disk'.docs_sections) => Commits("clear_db")
      ]_vars

\* A section has just been added to a store that held a section and components
\* of two names.
C18_Witness ==
    /\ ret.op = "insert_section"
    /\ ret.status = "ok"
    /\ Cardinality(disk.docs_sections) >= 2
    /\ Cardinality(disk.components) >= 2

\* ------------------------------------------- statistics under concurrency

\* The counts of an answer of GET /stats or GET /.
StatsOf(r) == IF r.op = "health_check" THEN r.value.stats ELSE r.value

\* pages <= sections, and pages = 0 exactly when sections = 0.
Consistent(stats) ==
    /\ stats.pages <= stats.sections
    /\ stats.pages = 0 <=> stats.sections = 0

\* C19, as claimed: the counts of every statistics answer are consistent,
\* whatever the ingester commits between the reads.
C19_StatsAreOneSnapshot ==
    (ret.op \in StatsOps /\ ret.exit = "returned") => Consistent(StatsOf(ret))

\* C19, amended: when the committed content after the last read is the one the
\* request found when it connected (no commit changed the store in between),
\* the counts are those of that content, and consistent.
C19_StatsOfUnchangedStore ==
    (ret.op \in StatsOps /\ ret.exit = "returned" /\ ret.began = disk) =>
        /\ StatsOf(ret).sections = Cardinality({r.id : r \in disk.docs_sections})
        /\ StatsOf(ret).pages =
               Cardinality({slug \in Slugs : \E r \in disk.docs_sections : r.slug = slug})
        /\ StatsOf(ret).components = Cardinality({c.name : c \in disk.components})
        /\ Consistent(StatsOf(ret))

\* Statistics of an unchanged store of two sections, answered while a write of
\* the ingester was open.
C19_Witness ==
    /\ ret.op \in StatsOps
    /\ ret.exit = "returned"
    /\ ret.began = disk
    /\ StatsOf(ret).sections = 2
    /\ pc # "idle"
    /\ txn # disk

====
